---- MODULE Spec2Model ----
(***************************************************************************)
(* gitlab_repo_group_sync.py: the main process lists the projects of a     *)
(* GitLab group, cuts the list into batches of gl_batch projects, submits  *)
(* every project of a batch to a multiprocessing.Pool (apply_async) and    *)
(* waits for every AsyncResult of the batch before it goes on.  Each task  *)
(* is clone_repository, run by one worker process of the pool.             *)
(*                                                                         *)
(* What the program does not decide is an input: the remote catalog, the   *)
(* working copies already on disk, the batch size and the number of worker *)
(* processes are drawn in Init; how a project's remote answers git is      *)
(* drawn at the first operation against it and stays the same from then    *)
(* on, over both runs (the remote does not change).  The workers            *)
(* are forked from the main process (signal.alarm is Unix only), so they    *)
(* see the globals the main block sets.                                     *)
(*                                                                         *)
(* getlatest.py is a second program: GithubUpdater.process_line decides    *)
(* for one line of the configuration whether the binary is updated.  It    *)
(* has its own specification, SpecUpdater, whose inputs are the version    *)
(* string of the installed binary and the one of the repository.           *)
(***************************************************************************)
EXTENDS Integers, Sequences, FiniteSets, TLC

\* Bounds of the model.
MaxProjects == 3
MaxBatch == 3
MaxProcs == 2
MaxVer == 1         \* major, minor and patch of a version are in 0..MaxVer
MaxPrefix == 1      \* a version string starts with at most MaxPrefix "v"

VARIABLES
    remote,         \* remote[p]: how project p's remote answers git: "ok", "bad",
                    \* "slow"; "unknown" until its first answer, the same from then on
    repos,          \* projects whose local path holds a valid working copy
    dirs,           \* projects whose local path exists
    gl_batch,       \* batch size
    processes,      \* size of the worker pool (os.cpu_count())
    run,            \* which run of the script this is
    pc,             \* position of the main process
    projects,       \* the listed projects
    i,              \* loop variable of the batch loop (0-based offset)
    results,        \* AsyncResults of the current batch, as the projects they belong to
    widx,           \* 1-based index of the result the main process waits on
    pool,           \* "none", "open", "closed", "joined"
    taskqueue,      \* tasks submitted and not yet taken by a worker
    wpc,            \* wpc[w]: position of worker process w
    wtask,          \* wtask[w]: project worker w works on, 0 when none
    alarm,          \* alarm[w]: the project whose task armed the signal.alarm
                    \* pending in worker w, 0 when none is pending
    ready,          \* projects whose AsyncResult holds a result
    outcome,        \* outcome[p]: how p's task returned: "none", "Updated", "Cloned",
                    \* "Error" (an exception the pool hands back in the result)
    tstate,         \* tstate[p]: "new", "queued", "running", "done", "lost"
    submitted,      \* submitted[p]: number of apply_async calls for p in this run
    delivered,      \* delivered[p]: number of results set for p in this run
    fetchAttempts,  \* fetchAttempts[p]: fetch calls for p in this run
    cloneAttempts,  \* cloneAttempts[p]: clone_from calls for p in this run
    fetchFailed,    \* projects whose fetch raised GitCommandError in this run
    cloneFailed,    \* projects whose clone raised GitCommandError in this run
    timedOut,       \* projects whose worker was killed by SIGALRM in this run
    batches,        \* the batches the loop has taken so far in this run
    reposAtStart,   \* repos when the run started
    dirsAtStart,    \* dirs when the run started
    prevOutcome,    \* outcome at the end of the previous run
    fatal,          \* an authentication, group or listing call has failed in this run
    mkdirFailed,    \* projects whose os.makedirs raised OSError in this run
    noOrigin,       \* local paths whose working copy has no remote named origin
    crossFired,     \* projects whose worker was killed by an earlier task's alarm
    bin_version,    \* getlatest: what get_current_version returns
    pkg_version,    \* getlatest: what get_pkg_repo_version returns
    upc,            \* getlatest: position of process_line
    current_version,\* getlatest: local variable of process_line
    latest_version, \* getlatest: local variable of process_line
    decision,       \* getlatest: the branch process_line took
    installed       \* getlatest: the binary on disk, "current" or "latest"

vars == <<remote, repos, dirs, gl_batch, processes, run, pc, projects, i, results,
          widx, pool, taskqueue, wpc, wtask, alarm, ready, outcome, tstate,
          submitted, delivered, fetchAttempts, cloneAttempts, fetchFailed,
          cloneFailed, timedOut, batches, reposAtStart, dirsAtStart, prevOutcome,
          fatal, mkdirFailed, noOrigin, crossFired, bin_version, pkg_version,
          upc, current_version, latest_version, decision, installed>>

updaterv == <<bin_version, pkg_version, upc, current_version, latest_version,
              decision, installed>>
env == <<gl_batch, processes, noOrigin, updaterv>>
mainh == <<fatal, mkdirFailed>>
workh == <<crossFired>>
mainv == <<pc, projects, i, results, widx, pool, batches>>
hist == <<submitted, delivered, fetchAttempts, cloneAttempts, fetchFailed,
          cloneFailed, timedOut, reposAtStart, dirsAtStart, prevOutcome, run>>

Catalog == DOMAIN remote
Workers == 1..processes
Min(a, b) == IF a < b THEN a ELSE b

----------------------------------------------------------------------------
\* The batch loop's arithmetic.

BatchOverlap(k) == SubSeq(projects, k + 1, Min(k + gl_batch + 1, Len(projects)))

\* projects[k : k + gl_batch]
Batch(k) == SubSeq(projects, k + 1, Min(k + gl_batch, Len(projects)))

NextStartSkip(k) == k + gl_batch + 1

\* the next value of range(0, len(projects), gl_batch)
NextStart(k) == k + gl_batch

WaitAfterEach(n, b) == TRUE

\* "for project in batch" is over: every member of the batch is submitted
BatchSubmitted(n, b) == n = Len(b)

NoWait(p) == TRUE

\* result.wait() returns once the AsyncResult holds a result
ResultReady(p) == p \in ready

AlwaysFree(w) == wpc[w] # "none"

\* a pool worker takes a task only between two tasks
WorkerFree(w) == wpc[w] = "idle"

BasePathOnly(p) == 0

\* path = os.path.join(gl_local_base_path, project.path_with_namespace): the
\* namespace paths of a catalog are unique, and so are the joined paths
LocalTarget(p) == p

NoRepoAfterClone(p) == repos

\* a successful clone_from leaves a working copy at the path
ReposAfterClone(p) == repos \cup {LocalTarget(p)}

NoCreate(p) == dirs

\* create_directory: os.makedirs when the path does not exist
DirsAfterCreate(p) ==
    IF LocalTarget(p) \notin dirs THEN dirs \cup {LocalTarget(p)} ELSE dirs

\* Repo(path) succeeds on a valid working copy and raises
\* InvalidGitRepositoryError otherwise
IsGitRepository(p) == LocalTarget(p) \in repos

\* what p's remote may answer to a git operation
Answers(p) == IF remote[p] = "unknown" THEN {"ok", "bad", "slow"} ELSE {remote[p]}

\* what repo.remotes.origin.fetch() may do: without a remote named origin the
\* attribute lookup raises (no GitCommandError), else p's remote answers
FetchResult(p) == IF LocalTarget(p) \in noOrigin THEN {"exc"} ELSE Answers(p)

\* what Repo.clone_from may do: git refuses a destination that is not empty
CloneResult(p) == IF LocalTarget(p) \in repos THEN {"bad"} ELSE Answers(p)

\* the remote's answer r to an operation on p, remembered
Answered(p, r) == [remote EXCEPT ![p] = r]

----------------------------------------------------------------------------
\* getlatest.py: version strings.  A string is "semver" text (v times the
\* letter v, then major.minor.patch and a prerelease), other text, or None.

\* prerelease identifiers: a number, or an alphanumeric word, val its rank in
\* the lexical order
Numeric(n) == [num |-> TRUE, val |-> n]
Alnum(n) == [num |-> FALSE, val |-> n]
PreReleases == {<< >>, <<Numeric(1)>>, <<Alnum(1)>>, <<Alnum(1), Numeric(1)>>}

NoneVersion ==
    [kind |-> "none", v |-> 0, major |-> 0, minor |-> 0, patch |-> 0, pre |-> << >>]

SemverStrings ==
    [kind : {"semver"}, v : 0..MaxPrefix, major : 0..MaxVer, minor : 0..MaxVer,
     patch : 0..MaxVer, pre : PreReleases]

TextStrings ==
    [kind : {"text"}, v : 0..MaxPrefix, major : {0}, minor : {0}, patch : {0},
     pre : {<< >>}]

\* bin_version of the configuration, "0.0.0", the match of the pattern in the
\* binary's output, or None when nothing matches
CurrentVersions == SemverStrings \cup TextStrings \cup {NoneVersion}

\* pkg_version of the configuration or the name of the GitHub release
RepoVersions == SemverStrings \cup TextStrings

\* str.lstrip("v"): every leading v is removed
Lstrip(s) == [s EXCEPT !.v = 0]

\* semver parses the string: ValueError otherwise
Parses(s) == s.kind = "semver" /\ s.v = 0

Cmp(a, b) == IF a < b THEN -1 ELSE IF a > b THEN 1 ELSE 0

\* two prerelease identifiers: numbers by value, a number below a word, words
\* lexically
CmpTag(a, b) ==
    IF a.num /\ b.num THEN Cmp(a.val, b.val)
    ELSE IF a.num THEN -1
    ELSE IF b.num THEN 1
    ELSE Cmp(a.val, b.val)

RECURSIVE NatCmp(_, _)
\* two prereleases: identifier by identifier, then the longer one is higher
NatCmp(a, b) ==
    IF a = << >> \/ b = << >> THEN Cmp(Len(a), Len(b))
    ELSE IF CmpTag(Head(a), Head(b)) # 0 THEN CmpTag(Head(a), Head(b))
    ELSE NatCmp(Tail(a), Tail(b))

\* semver.compare: major, minor, patch, then the prerelease, where a version
\* with no prerelease is above the same version with one
SemverCompare(a, b) ==
    IF Cmp(a.major, b.major) # 0 THEN Cmp(a.major, b.major)
    ELSE IF Cmp(a.minor, b.minor) # 0 THEN Cmp(a.minor, b.minor)
    ELSE IF Cmp(a.patch, b.patch) # 0 THEN Cmp(a.patch, b.patch)
    ELSE IF NatCmp(a.pre, b.pre) = 0 THEN 0
    ELSE IF a.pre = << >> THEN 1
    ELSE IF b.pre = << >> THEN -1
    ELSE NatCmp(a.pre, b.pre)

LatestIsRepo(c, r) == r

\* get_versions: the higher of the two versions
LatestVersion(c, r) == IF SemverCompare(c, r) < 0 THEN r ELSE c

\* the updater is not part of the synchronizer
UpdaterOff ==
    /\ bin_version = NoneVersion
    /\ pkg_version = NoneVersion
    /\ upc = "off"
    /\ current_version = NoneVersion
    /\ latest_version = NoneVersion
    /\ decision = "none"
    /\ installed = "current"

----------------------------------------------------------------------------
Zero == [p \in Catalog |-> 0]

Init ==
    /\ \E n \in 0..MaxProjects : remote = [p \in 1..n |-> "unknown"]
    /\ repos \in SUBSET {LocalTarget(p) : p \in Catalog}
    /\ noOrigin \in SUBSET repos
    /\ dirs = repos
    /\ gl_batch \in 1..MaxBatch
    /\ processes \in 1..MaxProcs
    /\ run = 1
    /\ pc = "auth"
    /\ projects = << >>
    /\ i = 0
    /\ results = << >>
    /\ widx = 1
    /\ pool = "none"
    /\ taskqueue = << >>
    /\ wpc = [w \in Workers |-> "none"]
    /\ wtask = [w \in Workers |-> 0]
    /\ alarm = [w \in Workers |-> 0]
    /\ ready = {}
    /\ outcome = [p \in Catalog |-> "none"]
    /\ tstate = [p \in Catalog |-> "new"]
    /\ submitted = Zero
    /\ delivered = Zero
    /\ fetchAttempts = Zero
    /\ cloneAttempts = Zero
    /\ fetchFailed = {}
    /\ cloneFailed = {}
    /\ timedOut = {}
    /\ batches = << >>
    /\ reposAtStart = repos
    /\ dirsAtStart = dirs
    /\ prevOutcome = [p \in Catalog |-> "none"]
    /\ fatal = FALSE
    /\ mkdirFailed = {}
    /\ crossFired = {}
    /\ UpdaterOff

----------------------------------------------------------------------------
\* The main process.

workerv == <<taskqueue, wpc, wtask, alarm, ready, outcome, tstate>>

AfterCallNoExit(ok, next) == next

\* where the main process goes after a GitLab call: on, or sys.exit(1) in the
\* except branch
AfterCall(ok, next) == IF ok THEN next ELSE "exit1"

\* auth_with_gitlab_credentials / auth_with_gitlab_config
Authenticate ==
    /\ pc = "auth"
    /\ \E ok \in BOOLEAN : pc' = AfterCall(ok, "group") /\ fatal' = ~ok
    /\ UNCHANGED <<env, remote, mkdirFailed, workh, repos, dirs, projects, i, results, widx, pool, batches,
                   workerv, hist>>

\* get_root_group_path
GetRootGroup ==
    /\ pc = "group"
    /\ \E ok \in BOOLEAN : pc' = AfterCall(ok, "list") /\ fatal' = ~ok
    /\ UNCHANGED <<env, remote, mkdirFailed, workh, repos, dirs, projects, i, results, widx, pool, batches,
                   workerv, hist>>

\* root_grp.projects.list(include_subgroups=True, all=True)
ListProjects ==
    /\ pc = "list"
    /\ \E ok \in BOOLEAN :
         /\ projects' = IF ok THEN [k \in 1..Cardinality(Catalog) |-> k] ELSE projects
         /\ pc' = AfterCall(ok, "pool")
         /\ fatal' = ~ok
    /\ UNCHANGED <<env, remote, mkdirFailed, workh, repos, dirs, i, results, widx, pool, batches, workerv, hist>>

\* pool = Pool(processes=os.cpu_count())
CreatePool ==
    /\ pc = "pool"
    /\ pool' = "open"
    /\ wpc' = [w \in Workers |-> "idle"]
    /\ i' = 0
    /\ pc' = "loop"
    /\ UNCHANGED <<env, remote, mainh, workh, repos, dirs, projects, results, widx, batches, taskqueue,
                   wtask, alarm, ready, outcome, tstate, hist>>

\* for i in range(0, len(projects), gl_batch): batch = ...; results = []
NextBatch ==
    /\ pc = "loop"
    /\ IF i < Len(projects)
       THEN /\ batches' = Append(batches, Batch(i))
            /\ results' = << >>
            /\ pc' = "submit"
       ELSE /\ batches' = batches
            /\ results' = results
            /\ pc' = "close"
    /\ UNCHANGED <<env, remote, mainh, workh, repos, dirs, projects, i, widx, pool, workerv, hist>>

\* one round of "for project in batch": create_directory, apply_async, append
Submit ==
    /\ pc = "submit"
    /\ LET b == batches[Len(batches)]
           p == b[Len(results) + 1]
       IN /\ dirs' = DirsAfterCreate(p)
          /\ taskqueue' = Append(taskqueue, p)
          /\ tstate' = [tstate EXCEPT ![p] = "queued"]
          /\ submitted' = [submitted EXCEPT ![p] = @ + 1]
          /\ results' = Append(results, p)
          /\ IF BatchSubmitted(Len(results) + 1, b)
             THEN pc' = "wait" /\ widx' = 1
             ELSE pc' = pc /\ widx' = widx
    /\ UNCHANGED <<env, remote, mainh, workh, repos, projects, i, pool, batches, wpc, wtask, alarm, ready,
                   outcome, delivered, fetchAttempts, cloneAttempts, fetchFailed,
                   cloneFailed, timedOut, reposAtStart, dirsAtStart, prevOutcome, run>>

\* create_directory raises OSError from os.makedirs: nothing catches it, the
\* main process ends with a traceback and the pool's daemon workers with it
MakedirsFails ==
    /\ pc = "submit"
    /\ LET b == batches[Len(batches)]
           p == b[Len(results) + 1]
       IN /\ LocalTarget(p) \notin dirs
          /\ mkdirFailed' = mkdirFailed \cup {p}
    /\ pc' = "crash"
    /\ pool' = "terminated"
    /\ taskqueue' = << >>
    /\ wpc' = [w \in Workers |-> "exited"]
    /\ wtask' = [w \in Workers |-> 0]
    /\ alarm' = [w \in Workers |-> 0]
    /\ tstate' = [q \in Catalog |->
                     IF tstate[q] \in {"queued", "running"} THEN "lost" ELSE tstate[q]]
    /\ UNCHANGED <<env, remote, fatal, workh, repos, dirs, projects, i, results, widx, batches, ready,
                   outcome, hist>>

\* one round of "for result in results: result.wait()"
Wait ==
    /\ pc = "wait"
    /\ ResultReady(results[widx])
    /\ IF widx = Len(results)
       THEN /\ i' = NextStart(i)
            /\ pc' = "loop"
            /\ widx' = widx
       ELSE /\ i' = i
            /\ pc' = pc
            /\ widx' = widx + 1
    /\ UNCHANGED <<env, remote, mainh, workh, repos, dirs, projects, results, pool, batches, workerv, hist>>

\* pool.close()
PoolClose ==
    /\ pc = "close"
    /\ pool' = "closed"
    /\ pc' = "join"
    /\ UNCHANGED <<env, remote, mainh, workh, repos, dirs, projects, i, results, widx, batches, workerv, hist>>

\* pool.join(): the workers of a closed pool exit once the queue is drained
PoolJoin ==
    /\ pc = "join"
    /\ taskqueue = << >>
    /\ \A w \in Workers : wpc[w] \in {"idle", "dead"}
    /\ wpc' = [w \in Workers |-> "exited"]
    /\ alarm' = [w \in Workers |-> 0]
    /\ pool' = "joined"
    /\ pc' = "done"
    /\ UNCHANGED <<env, remote, mainh, workh, repos, dirs, projects, i, results, widx, batches,
                   taskqueue, wtask, ready, outcome, tstate, hist>>

\* the script is run a second time on the same base directory
Rerun ==
    /\ pc = "done"
    /\ run = 1
    /\ run' = run + 1
    /\ prevOutcome' = outcome
    /\ reposAtStart' = repos
    /\ dirsAtStart' = dirs
    /\ pc' = "auth"
    /\ projects' = << >>
    /\ i' = 0
    /\ results' = << >>
    /\ widx' = 1
    /\ pool' = "none"
    /\ taskqueue' = << >>
    /\ wpc' = [w \in Workers |-> "none"]
    /\ wtask' = [w \in Workers |-> 0]
    /\ alarm' = [w \in Workers |-> 0]
    /\ ready' = {}
    /\ outcome' = [p \in Catalog |-> "none"]
    /\ tstate' = [p \in Catalog |-> "new"]
    /\ submitted' = Zero
    /\ delivered' = Zero
    /\ fetchAttempts' = Zero
    /\ cloneAttempts' = Zero
    /\ fetchFailed' = {}
    /\ cloneFailed' = {}
    /\ timedOut' = {}
    /\ batches' = << >>
    /\ fatal' = FALSE
    /\ mkdirFailed' = {}
    /\ crossFired' = {}
    /\ UNCHANGED <<env, remote, repos, dirs>>

----------------------------------------------------------------------------
\* The worker processes of the pool.

\* a worker takes the next task from the pool's queue and calls clone_func:
\* clone_repository up to its first git operation.  Repo(path), then
\* signal.alarm(timeout) and the fetch; InvalidGitRepositoryError passes on to
\* the clone and its signal.alarm(timeout)
TakeTask(w) ==
    /\ pool = "open"
    /\ WorkerFree(w)
    /\ taskqueue # << >>
    /\ LET p == Head(taskqueue)
       IN /\ wtask' = [wtask EXCEPT ![w] = p]
          /\ tstate' = [tstate EXCEPT ![p] = "running"]
          /\ IF IsGitRepository(p)
             THEN /\ wpc' = [wpc EXCEPT ![w] = "fetch"]
                  /\ fetchAttempts' = [fetchAttempts EXCEPT ![p] = @ + 1]
                  /\ cloneAttempts' = cloneAttempts
             ELSE /\ wpc' = [wpc EXCEPT ![w] = "clone"]
                  /\ cloneAttempts' = [cloneAttempts EXCEPT ![p] = @ + 1]
                  /\ fetchAttempts' = fetchAttempts
    /\ taskqueue' = Tail(taskqueue)
    /\ alarm' = [alarm EXCEPT ![w] = Head(taskqueue)]
    /\ UNCHANGED <<env, remote, mainh, workh, repos, dirs, mainv, ready, outcome, submitted, delivered,
                   fetchFailed, cloneFailed, timedOut, reposAtStart, dirsAtStart,
                   prevOutcome, run>>

\* the worker puts the task's result; the AsyncResult is set
Deliver(w, p, how) ==
    /\ ready' = ready \cup {p}
    /\ outcome' = [outcome EXCEPT ![p] = how]
    /\ delivered' = [delivered EXCEPT ![p] = @ + 1]
    /\ tstate' = [tstate EXCEPT ![p] = "done"]
    /\ wpc' = [wpc EXCEPT ![w] = "idle"]
    /\ wtask' = [wtask EXCEPT ![w] = 0]

\* the worker process ends without a result for its task
Die(w, p) ==
    /\ tstate' = [tstate EXCEPT ![p] = "lost"]
    /\ wpc' = [wpc EXCEPT ![w] = "dead"]
    /\ wtask' = [wtask EXCEPT ![w] = 0]
    /\ alarm' = [alarm EXCEPT ![w] = 0]

\* repo.remotes.origin.fetch() returns, raises GitCommandError, or raises
\* another exception, which leaves clone_repository past both signal.alarm(0)
\* and which the pool worker hands back as the task's result
FetchReturn(w) ==
    /\ wpc[w] = "fetch"
    /\ LET p == wtask[w]
       IN \/ /\ "ok" \in FetchResult(p)
             /\ remote' = Answered(p, "ok")
             /\ alarm' = [alarm EXCEPT ![w] = 0]
             /\ Deliver(w, p, "Updated")
             /\ UNCHANGED <<cloneAttempts, fetchFailed>>
          \/ /\ "bad" \in FetchResult(p)
             /\ remote' = Answered(p, "bad")
             /\ fetchFailed' = fetchFailed \cup {p}
             /\ wpc' = [wpc EXCEPT ![w] = "clone"]
             /\ cloneAttempts' = [cloneAttempts EXCEPT ![p] = @ + 1]
             /\ alarm' = [alarm EXCEPT ![w] = p]
             /\ UNCHANGED <<ready, outcome, delivered, tstate, wtask>>
          \/ /\ "exc" \in FetchResult(p)
             /\ remote' = remote
             /\ Deliver(w, p, "Error")
             /\ UNCHANGED <<alarm, cloneAttempts, fetchFailed>>
    /\ UNCHANGED <<env, mainh, workh, repos, dirs, mainv, taskqueue, submitted, fetchAttempts,
                   cloneFailed, timedOut, reposAtStart, dirsAtStart, prevOutcome, run>>

\* Repo.clone_from returns, or raises GitCommandError and the task calls sys.exit(1)
CloneReturn(w) ==
    /\ wpc[w] = "clone"
    /\ LET p == wtask[w]
       IN \/ /\ "ok" \in CloneResult(p)
             /\ remote' = Answered(p, "ok")
             /\ repos' = ReposAfterClone(p)
             /\ alarm' = [alarm EXCEPT ![w] = 0]
             /\ Deliver(w, p, "Cloned")
             /\ UNCHANGED cloneFailed
          \/ /\ "bad" \in CloneResult(p)
             /\ remote' = IF LocalTarget(p) \in repos THEN remote ELSE Answered(p, "bad")
             /\ cloneFailed' = cloneFailed \cup {p}
             /\ Die(w, p)
             /\ UNCHANGED <<repos, ready, outcome, delivered>>
    /\ UNCHANGED <<env, mainh, workh, dirs, mainv, taskqueue, submitted, fetchAttempts, cloneAttempts,
                   fetchFailed, timedOut, reposAtStart, dirsAtStart, prevOutcome, run>>

\* the pending alarm goes off during a slow fetch or clone: SIGALRM has no
\* handler, so it ends the worker process
AlarmFires(w) ==
    /\ alarm[w] # 0
    /\ \/ wpc[w] = "fetch" /\ "slow" \in FetchResult(wtask[w])
       \/ wpc[w] = "clone" /\ "slow" \in CloneResult(wtask[w])
    /\ remote' = Answered(wtask[w], "slow")
    /\ timedOut' = timedOut \cup {wtask[w]}
    /\ Die(w, wtask[w])
    /\ UNCHANGED <<env, mainh, workh, repos, dirs, mainv, taskqueue, ready, outcome, submitted,
                   delivered, fetchAttempts, cloneAttempts, fetchFailed, cloneFailed,
                   reposAtStart, dirsAtStart, prevOutcome, run>>

\* the alarm an ended task left pending goes off in a worker that waits for
\* its next task: the worker process ends
StaleAlarmFires(w) ==
    /\ alarm[w] # 0
    /\ wpc[w] = "idle"
    /\ wpc' = [wpc EXCEPT ![w] = "dead"]
    /\ alarm' = [alarm EXCEPT ![w] = 0]
    /\ UNCHANGED <<env, remote, mainh, workh, repos, dirs, mainv, taskqueue, wtask, ready,
                   outcome, tstate, hist>>

\* the alarm an ended task left pending goes off when the worker has taken
\* its next task and has not yet reached that task's own signal.alarm: the
\* worker process ends without a result for the new task
StaleAlarmKillsNext(w) ==
    /\ pool = "open"
    /\ WorkerFree(w)
    /\ taskqueue # << >>
    /\ alarm[w] # 0
    /\ crossFired' = crossFired \cup {Head(taskqueue)}
    /\ taskqueue' = Tail(taskqueue)
    /\ Die(w, Head(taskqueue))
    /\ UNCHANGED <<env, remote, mainh, repos, dirs, mainv, ready, outcome, hist>>

\* the pool replaces a worker process that has ended
Repopulate(w) ==
    /\ pool = "open"
    /\ wpc[w] = "dead"
    /\ wpc' = [wpc EXCEPT ![w] = "idle"]
    /\ UNCHANGED <<env, remote, mainh, workh, repos, dirs, mainv, taskqueue, wtask, alarm, ready, outcome,
                   tstate, hist>>

----------------------------------------------------------------------------
Next ==
    \/ Authenticate
    \/ GetRootGroup
    \/ ListProjects
    \/ CreatePool
    \/ NextBatch
    \/ Submit
    \/ MakedirsFails
    \/ Wait
    \/ PoolClose
    \/ PoolJoin
    \/ Rerun
    \/ \E w \in Workers : TakeTask(w)
    \/ \E w \in Workers : FetchReturn(w)
    \/ \E w \in Workers : CloneReturn(w)
    \/ \E w \in Workers : AlarmFires(w)
    \/ \E w \in Workers : StaleAlarmFires(w)
    \/ \E w \in Workers : StaleAlarmKillsNext(w)
    \/ \E w \in Workers : Repopulate(w)

Spec == Init /\ [][Next]_vars

----------------------------------------------------------------------------
\* getlatest.py: GithubUpdater.process_line for one line of the configuration.

syncv == <<remote, repos, dirs, gl_batch, processes, noOrigin, mainh, workh,
           mainv, hist, workerv>>

\* the synchronizer is not part of the updater
SyncOff ==
    /\ remote = << >>
    /\ repos = {}
    /\ noOrigin = {}
    /\ dirs = {}
    /\ gl_batch = 1
    /\ processes = 1
    /\ run = 1
    /\ pc = "off"
    /\ projects = << >>
    /\ i = 0
    /\ results = << >>
    /\ widx = 1
    /\ pool = "none"
    /\ taskqueue = << >>
    /\ wpc = [w \in Workers |-> "none"]
    /\ wtask = [w \in Workers |-> 0]
    /\ alarm = [w \in Workers |-> 0]
    /\ ready = {}
    /\ outcome = << >>
    /\ tstate = << >>
    /\ submitted = << >>
    /\ delivered = << >>
    /\ fetchAttempts = << >>
    /\ cloneAttempts = << >>
    /\ fetchFailed = {}
    /\ cloneFailed = {}
    /\ timedOut = {}
    /\ batches = << >>
    /\ reposAtStart = {}
    /\ dirsAtStart = {}
    /\ prevOutcome = << >>
    /\ fatal = FALSE
    /\ mkdirFailed = {}
    /\ crossFired = {}

InitU ==
    /\ SyncOff
    /\ bin_version \in CurrentVersions
    /\ pkg_version \in RepoVersions
    /\ upc = "start"
    /\ current_version = NoneVersion
    /\ latest_version = NoneVersion
    /\ decision = "none"
    /\ installed = "current"

\* get_versions: None.lstrip raises AttributeError, semver.compare raises
\* ValueError on a string it cannot parse; process_line is left by the exception
GetVersions ==
    /\ upc = "start"
    /\ IF bin_version.kind = "none"
          \/ ~ Parses(Lstrip(bin_version)) \/ ~ Parses(Lstrip(pkg_version))
       THEN /\ upc' = "raised"
            /\ UNCHANGED <<current_version, latest_version>>
       ELSE /\ current_version' = Lstrip(bin_version)
            /\ latest_version' = LatestVersion(Lstrip(bin_version), Lstrip(pkg_version))
            /\ upc' = "compare"
    /\ UNCHANGED <<syncv, bin_version, pkg_version, decision, installed>>

\* process_line: the three branches on semver.compare(current, latest)
ProcessLine ==
    /\ upc = "compare"
    /\ decision' = IF SemverCompare(current_version, latest_version) < 0 THEN "update"
                   ELSE IF SemverCompare(current_version, latest_version) = 0
                        THEN "noupdate"
                   ELSE "error"
    /\ upc' = IF SemverCompare(current_version, latest_version) < 0 THEN "update"
              ELSE "done"
    /\ UNCHANGED <<syncv, bin_version, pkg_version, current_version, latest_version,
                   installed>>

\* update_software: the download and the installation succeed or fail
UpdateSoftware ==
    /\ upc = "update"
    /\ \E ok \in BOOLEAN : installed' = IF ok THEN "latest" ELSE installed
    /\ upc' = "done"
    /\ UNCHANGED <<syncv, bin_version, pkg_version, current_version, latest_version,
                   decision>>

NextU ==
    \/ GetVersions
    \/ ProcessLine
    \/ UpdateSoftware

SpecUpdater == InitU /\ [][NextU]_vars

----------------------------------------------------------------------------
\* Helpers of the properties.

RECURSIVE Flatten(_)
Flatten(ss) == IF ss = << >> THEN << >> ELSE Head(ss) \o Flatten(Tail(ss))

Range(s) == {s[k] : k \in DOMAIN s}
Running == {p \in Catalog : tstate[p] = "running"}
LoopOver == pc \in {"close", "join", "done"}
Ended == pc \in {"done", "exit1", "crash"}

\* C1: no task of a later batch is submitted or started before every task of
\* each earlier batch has a result recorded in its AsyncResult.
BatchBarrier ==
    \A k1 \in DOMAIN batches : \A k2 \in DOMAIN batches :
        k1 < k2 =>
            \A p \in Range(batches[k1]) : \A q \in Range(batches[k2]) :
                tstate[q] # "new" => p \in ready

BatchBarrierWitness ==
    /\ Len(batches) >= 2
    /\ Len(batches[1]) >= 2
    /\ \E q \in Range(batches[2]) : tstate[q] = "running"

\* C2: at most as many tasks run at the same time as the pool has worker
\* processes.
ConcurrencyBound == Cardinality(Running) <= processes

ConcurrencyBoundWitness ==
    /\ gl_batch >= processes
    /\ processes >= 2
    /\ Cardinality(Running) = processes
    /\ taskqueue # << >>

\* C3: the run always goes on until its end: in every state the script has
\* ended (pool joined, or a fatal exit) or some step of it can be taken.
RunTerminates == Ended \/ ENABLED Next

\* C4: a project whose clone fails has a recorded outcome, Failed, and the
\* failure stops no other project: when nothing more can happen, every project
\* whose own operations did not fail has its outcome.
FailureIsolation ==
    /\ \A p \in cloneFailed : tstate[p] = "done" /\ outcome[p] = "Failed"
    /\ (cloneFailed # {} /\ timedOut = {} /\ ~ ENABLED Next) =>
           \A q \in Catalog \ cloneFailed : tstate[q] = "done"

\* C5: a task that runs past its deadline has a recorded outcome, TimedOut,
\* the worker pool keeps its worker, and the batch is not held up: when nothing
\* more can happen, every project whose own operations did not fail has its
\* outcome.
TimeoutIsolation ==
    /\ \A p \in timedOut : tstate[p] = "done" /\ outcome[p] = "TimedOut"
    /\ timedOut # {} => \A w \in Workers : wpc[w] # "dead"
    /\ (timedOut # {} /\ cloneFailed = {} /\ ~ ENABLED Next) =>
           \A q \in Catalog \ timedOut : tstate[q] = "done"

Partition ==
    /\ \A k \in DOMAIN batches :
          /\ Len(batches[k]) >= 1
          /\ Len(batches[k]) <= gl_batch
          /\ k < Len(batches) => Len(batches[k]) = gl_batch
    /\ Len(Flatten(batches)) <= Len(projects)
    /\ Flatten(batches) = SubSeq(projects, 1, Len(Flatten(batches)))
    /\ LoopOver => Flatten(batches) = projects

PartitionWitness ==
    /\ LoopOver
    /\ Len(projects) = 3
    /\ gl_batch = 2
    /\ Len(batches) = 2

\* C8: a project whose fetch raised an error gets no clone attempt and keeps
\* its working copy.
NoCloneAfterFailedFetch ==
    \A p \in fetchFailed : cloneAttempts[p] = 0 /\ LocalTarget(p) \in repos

\* C9: a clone is attempted only for a project that had no valid working copy;
\* a task that ended Updated made one fetch and no clone; a task that ended
\* Cloned made one clone.
FetchElseClone ==
    /\ \A p \in Catalog : cloneAttempts[p] > 0 => LocalTarget(p) \notin reposAtStart
    /\ \A p \in Catalog :
          outcome[p] = "Updated" => fetchAttempts[p] = 1 /\ cloneAttempts[p] = 0
    /\ \A p \in Catalog : outcome[p] = "Cloned" => cloneAttempts[p] = 1

\* C10: in a run that follows a run which cloned every project, no clone is
\* attempted, every recorded outcome is Updated, the set of local directories
\* stays as it was, and at the end every project is Updated.
Idempotence ==
    (run >= 2 /\ \A p \in Catalog : prevOutcome[p] = "Cloned") =>
        /\ \A p \in Catalog :
              cloneAttempts[p] = 0 /\ outcome[p] \in {"none", "Updated"}
        /\ dirs = dirsAtStart
        /\ repos = reposAtStart
        /\ pc = "done" => \A p \in Catalog : outcome[p] = "Updated"

IdempotenceWitness ==
    /\ run = 2
    /\ pc = "done"
    /\ Cardinality(Catalog) >= 2
    /\ \A p \in Catalog : prevOutcome[p] = "Cloned" /\ outcome[p] = "Updated"

\* the exit status of the main process is not zero
NonZeroExit == pc \in {"exit1", "crash"}

\* C11: once an authentication, group or listing call has failed the run is at
\* its sys.exit(1) with no pool created, no directory created and no task
\* submitted; and only such a failure leads to that exit.
FatalShortCircuit ==
    /\ fatal =>
          /\ pc = "exit1"
          /\ pool = "none"
          /\ dirs = dirsAtStart
          /\ taskqueue = << >>
          /\ \A p \in Catalog : submitted[p] = 0 /\ tstate[p] = "new"
    /\ pc = "exit1" => fatal

FatalShortCircuitWitness ==
    /\ fatal
    /\ pc = "exit1"
    /\ Cardinality(Catalog) >= 2
    /\ \E p \in Catalog : LocalTarget(p) \notin dirs

\* C12: an error of os.makedirs for one project does not end the run: the
\* project is marked Failed and the main process goes on.
MkdirNotFatal ==
    \A p \in mkdirFailed : pc # "crash" /\ outcome[p] = "Failed"

\* C13: the exit status is not zero exactly when a fatal (authentication,
\* group, listing) error occurred; no failure of a single project makes it so.
ExitStatusOnlyFatal == NonZeroExit <=> fatal

\* C14: distinct projects have distinct local targets, no two workers work on
\* the same local target at the same time, and every local target has at most
\* one task submitted for it in a run.
ExclusiveOwnership ==
    /\ \A p \in Catalog : \A q \in Catalog :
          p # q => LocalTarget(p) # LocalTarget(q)
    /\ \A w1 \in Workers : \A w2 \in Workers :
          (w1 # w2 /\ wtask[w1] # 0 /\ wtask[w2] # 0) =>
              LocalTarget(wtask[w1]) # LocalTarget(wtask[w2])
    /\ \A p \in Catalog :
          /\ submitted[p] <= 1
          /\ Cardinality({q \in Catalog : /\ LocalTarget(q) = LocalTarget(p)
                                          /\ submitted[q] > 0}) <= 1

ExclusiveOwnershipWitness ==
    \E w1 \in Workers : \E w2 \in Workers :
        /\ w1 # w2
        /\ wpc[w1] = "clone"
        /\ wpc[w2] = "fetch"
        /\ wtask[w1] # wtask[w2]

\* C15: an alarm pending in a worker was armed by the task the worker is
\* running, and no task's worker is ever killed by the alarm of an earlier
\* task.
IndependentDeadlines ==
    /\ \A w \in Workers : alarm[w] # 0 => wtask[w] = alarm[w]
    /\ crossFired = {}

\* C16: the main process waits only when every member of the batch has been
\* submitted, and tasks that run at the same time are of the same batch.
ParallelWithinBatch ==
    /\ pc = "wait" => results = batches[Len(batches)]
    /\ \A p \in Running : \A q \in Running :
          \E k \in DOMAIN batches : {p, q} \subseteq Range(batches[k])

ParallelWithinBatchWitness ==
    /\ processes >= 2
    /\ \E k \in DOMAIN batches :
          /\ Len(batches[k]) >= 2
          /\ Cardinality(Running \cap Range(batches[k])) >= 2

\* C17: a project whose task is submitted has its local directory; directories
\* are only added, and only for submitted projects; create_directory on a path
\* that exists cannot fail and leaves the directories as they are.
PathBeforeSync ==
    /\ \A p \in Catalog : tstate[p] # "new" => LocalTarget(p) \in dirs
    /\ dirsAtStart \subseteq dirs
    /\ dirs \ dirsAtStart \subseteq {LocalTarget(p) : p \in {q \in Catalog : submitted[q] > 0}}
    /\ \A p \in Catalog : LocalTarget(p) \in dirs => DirsAfterCreate(p) = dirs
    /\ (pc = "submit" /\ LocalTarget(batches[Len(batches)][Len(results) + 1]) \in dirs)
           => ~ ENABLED MakedirsFails

PathBeforeSyncWitness ==
    /\ \E p \in Catalog : tstate[p] = "running" /\ LocalTarget(p) \notin dirsAtStart
    /\ \E q \in Catalog : tstate[q] = "running" /\ LocalTarget(q) \in dirsAtStart

\* C18: the pool is closed only when the loop is over and every listed project
\* has its result; nothing is submitted to a pool that is not open; with an
\* empty list the loop takes no batch and goes straight to close and join.
PoolLifetime ==
    /\ pool \in {"closed", "joined"} =>
          /\ pc \in {"join", "done"}
          /\ taskqueue = << >>
          /\ Running = {}
          /\ Flatten(batches) = projects
          /\ \A p \in Catalog : submitted[p] = 1 /\ p \in ready
    /\ pc = "submit" => pool = "open"
    /\ taskqueue # << >> => pool = "open"
    /\ (pool # "none" /\ Catalog = {}) =>
          /\ pc \in {"loop", "close", "join", "done"}
          /\ batches = << >>
          /\ taskqueue = << >>

PoolLifetimeWitness ==
    /\ pool = "joined"
    /\ Len(batches) >= 2
    /\ Len(batches[1]) >= 2

\* C19: process_line starts an update exactly when the current version is lower
\* than the repository version; when it is equal or higher it reports no update
\* and the binary stays as it is; the error branch is never taken.
UpdaterDecision ==
    /\ decision # "error"
    /\ decision = "update" <=>
          /\ upc \in {"update", "done"}
          /\ Parses(Lstrip(bin_version)) /\ Parses(Lstrip(pkg_version))
          /\ SemverCompare(Lstrip(bin_version), Lstrip(pkg_version)) < 0
    /\ (/\ upc = "done"
        /\ Parses(Lstrip(bin_version)) /\ Parses(Lstrip(pkg_version))
        /\ SemverCompare(Lstrip(bin_version), Lstrip(pkg_version)) >= 0)
           => decision = "noupdate" /\ installed = "current"
    /\ decision # "update" => installed = "current"

UpdaterDecisionWitness ==
    /\ upc = "done"
    /\ decision = "noupdate"
    /\ bin_version.v > 0
    /\ bin_version.pre # << >>
    /\ SemverCompare(Lstrip(bin_version), Lstrip(pkg_version)) > 0

====
